---- MODULE Spec2Model ----
(***************************************************************************)
(* State-machine model of lib/diazo/wsgi.py: DiazoMiddleware (the theme    *)
(* lifecycle and the filter_xpath escape hatch) in front of XSLTMiddleware *)
(* (admission, Range stripping, response capture, rewriting and the        *)
(* deferred start_response).  Worker threads of the WSGI server call the   *)
(* same middleware instance; each thread serves one request after another. *)
(***************************************************************************)
EXTENDS Naturals, Sequences, FiniteSets, TLC

\* ------------------------------------------------------------------ bounds

\* Cap on the number of successful theme compilations (unit identities).
MaxCompiles == 3

\* Worker threads of the server that call the one middleware instance.
Thread == {"t1", "t2"}

\* ------------------------------------------------------------ plain values

\* A header that is not present (dict.get returning None / KeyError).
Absent == "<absent>"

\* transform_middleware = None
None == <<>>

\* The XSLTMiddleware built once by get_filter_middleware().
Filter == <<"filter">>

\* The XSLTMiddleware built by the n-th successful get_transform_middleware().
Unit(n) == <<"unit", n>>

\* A half-built object; the code never produces one (used by a mutant only).
Partial == <<"partial">>

Units == {Unit(n) : n \in 1..MaxCompiles}

Instances == {Filter} \cup Units \cup {Partial}

DIAZO_OFF_HEADER == "X-Diazo-Off"

ignored_extensions ==
    {"js", "css", "gif", "jpg", "jpeg", "pdf", "ps", "doc", "png", "ico",
     "mov", "mpg", "mpeg", "mp3", "m4a", "txt", "rtf", "swf", "wav", "zip",
     "wmv", "ppt", "gz", "tgz", "jar", "xls", "bmp", "tif", "tga", "hqx",
     "avi"}

\* ------------------------------------------------------------------ inputs

Methods == {"GET", "HEAD"}

Paths == {"/page", "/image.png"}

\* Values of the X-Diazo-Off request header.
OffValues == {Absent, "junk"}

\* Values of the Range request header.
RangeValues == {Absent, "bytes=0-1"}

QueryStrings == {"", "a=1;filter_xpath=%2F%2Fp"}

Requests ==
    [method : Methods, path : Paths, off : OffValues, range : RangeValues,
     query : QueryStrings]

Statuses == {"200 OK", "301 Moved Permanently"}

ContentTypes == {"text/html", "image/png"}

\* Upstream framing headers: <<Content-Length, Content-Range>>.
Framings == {<<Absent, Absent>>, <<"9", "bytes 0-8/20">>}

HeaderSets ==
    {[ct |-> c, cl |-> f[1], cr |-> f[2], off |-> Absent, ce |-> Absent] :
        c \in ContentTypes, f \in Framings}

Responses ==
    [status : Statuses, headers : HeaderSets, body : {"<p>Hi</p>"}]
    \cup {[status |-> "200 OK",
           headers |-> [ct |-> "text/html", cl |-> Absent, cr |-> Absent,
                        off |-> "junk", ce |-> Absent],
           body |-> "<p>Hi</p>"]}

\* Results the transform engine can return: root tag, declared encoding and
\* the markup the serializer writes for it.
Trees == {[root |-> "html", encoding |-> Absent, doctype |-> "<!DOCTYPE html>",
           text |-> "<html><p>Hi</p></html>"]}

\* The stylesheet's xsl:output declaration (media-type, method).
Stylesheets == {[media_type |-> Absent, method |-> "html"]}

NoRequest ==
    [method |-> "", path |-> "", off |-> Absent, range |-> Absent, query |-> ""]

NoHeaders ==
    [ct |-> Absent, cl |-> Absent, cr |-> Absent, off |-> Absent, ce |-> Absent]

NoResponse == [status |-> "", headers |-> NoHeaders, body |-> ""]

\* --------------------------------------------------------- string helpers

StartsWith(s, p) == Len(s) >= Len(p) /\ SubSeq(s, 1, Len(p)) = p

EndsWith(s, p) ==
    Len(s) >= Len(p) /\ SubSeq(s, Len(s) - Len(p) + 1, Len(s)) = p

Contains(s, p) ==
    \E i \in 1..(Len(s) + 1) :
        i + Len(p) - 1 <= Len(s) /\ SubSeq(s, i, i + Len(p) - 1) = p

\* str.strip().lower() on the header values that occur.
StripLower(s) ==
    CASE s = " Yes " -> "yes"
      [] s = "TRUE" -> "true"
      [] s = "On" -> "on"
      [] s = "Y" -> "y"
      [] s = "T" -> "t"
      [] s = "No" -> "no"
      [] s = "TEXT/HTML; charset=utf-8" -> "text/html; charset=utf-8"
      [] s = "Application/XHTML+XML" -> "application/xhtml+xml"
      [] OTHER -> s

\* str(n) for the lengths that occur.
Digits == <<"0", "1", "2", "3", "4", "5", "6", "7", "8", "9">>

RECURSIVE Str(_)
Str(n) == IF n < 10 THEN Digits[n + 1] ELSE Str(n \div 10) \o Digits[(n % 10) + 1]

\* ------------------------------------------------------------ admission

\* asbool() of a string raises ValueError
AsboolRaises(value) ==
    StripLower(value) \notin
        {"true", "yes", "on", "y", "t", "1", "false", "no", "off", "n", "f", "0"}

asbool(value) == StripLower(value) \in {"true", "yes", "on", "y", "t", "1"}

\* headers.get(DIAZO_OFF_HEADER, 'no')
GetOff(value) == IF value = Absent THEN "no" ELSE value

\* ignored_pattern = "^.*\.(ext|ext|...)$", searched in path_info
IgnoredPattern(path) == \E e \in ignored_extensions : EndsWith(path, "." \o e)

ShouldIgnoreRaises(request) == AsboolRaises(GetOff(request.off))

should_ignore(request) ==
    IF asbool(GetOff(request.off)) THEN TRUE
    ELSE IF request.method = "HEAD" THEN TRUE
    ELSE IF IgnoredPattern(request.path) THEN TRUE
    ELSE FALSE

\* response.status.split()[0]
StatusCode(status) == SubSeq(status, 1, 3)

ShouldTransformRaises(response) == AsboolRaises(GetOff(response.headers.off))

should_transform(response) ==
    LET content_type == response.headers.ct
        content_encoding == response.headers.ce
        status_code == StatusCode(response.status)
    IN  IF asbool(GetOff(response.headers.off)) THEN FALSE
        ELSE IF \/ content_type = Absent
                \/ content_type = ""
                \/ ~(\/ StartsWith(StripLower(content_type), "text/html")
                     \/ StartsWith(StripLower(content_type), "application/xhtml+xml"))
             THEN FALSE
        ELSE IF content_encoding \in {"zip", "deflate", "compress"} THEN FALSE
        ELSE IF \/ StartsWith(status_code, "3")
                \/ status_code = "204"
                \/ status_code = "401"
             THEN FALSE
        ELSE TRUE

\* Mutant: the Range header is never removed.
KeepRange(request, ignore) == request

\* "if not ignore: del request.headers['Range']": the request that
\* request.get_response(self.app) hands to the downstream application.
StripRange(request, ignore) ==
    IF ~ignore THEN [request EXCEPT !.range = Absent] ELSE request

\* ------------------------------------------------------------- rewriting

\* XSLTMiddleware.__init__: content_type given, else the stylesheet's
\* media-type, else derived from its output method, else None.
InitContentType(content_type, sheet) ==
    IF content_type # Absent THEN content_type
    ELSE IF sheet.media_type # Absent THEN sheet.media_type
    ELSE IF sheet.method = Absent THEN Absent
    ELSE IF StripLower(sheet.method) = "html" THEN "text/html"
    ELSE IF StripLower(sheet.method) = "text" THEN "text/plain"
    ELSE IF StripLower(sheet.method) = "xml" THEN "text/xml"
    ELSE Absent

\* str(XMLSerializer(tree, doctype=doctype))
Serialize(tree, doctype) ==
    (IF doctype = Absent THEN tree.doctype ELSE doctype) \o tree.text

\* The Content-Type written after the transform.
ContentTypeHeader(content_type, tree) ==
    LET ct == IF content_type # Absent THEN content_type
              ELSE IF tree.root = "html" THEN "text/html" ELSE "text/xml"
        encoding == IF tree.encoding = Absent THEN "UTF-8" ELSE tree.encoding
    IN  ct \o "; charset=" \o encoding

\* Mutant: the upstream Content-Length is kept after the rewrite.
StaleContentLength(headers, update_content_length, tree, doctype) ==
    headers.cl

ContentLengthHeader(headers, update_content_length, tree, doctype) ==
    IF update_content_length /\ headers.cl # Absent
    THEN Str(Len(Serialize(tree, doctype)))
    ELSE headers.cl

ContentRangeHeader(headers, update_content_length) ==
    IF update_content_length /\ headers.cr # Absent THEN Absent ELSE headers.cr

\* response.headers after the rewrite, as passed to start_response.
RewriteHeaders(headers, mwconf, tree) ==
    [headers EXCEPT
        !.ct = ContentTypeHeader(mwconf.content_type, tree),
        !.cl = ContentLengthHeader(headers, mwconf.update_content_length,
                                   tree, mwconf.doctype),
        !.cr = ContentRangeHeader(headers, mwconf.update_content_length)]

\* ----------------------------------------------------------------- state

VARIABLES
    conf,                  \* the options DiazoMiddleware.__init__ stored
    transform_middleware,  \* DiazoMiddleware.transform_middleware (the cache)
    compiles,              \* successful get_transform_middleware() calls so far
    served,                \* units a request has been delegated to
    fields,                \* _status/_response_headers/_exc_info per instance
    th,                    \* per worker thread: the request it is serving
    probe                  \* last direct call of a pure function, with its result

vars == <<conf, transform_middleware, compiles, served, fields, th, probe>>

\* An XSLTMiddleware instance on which _sr's callback has not run yet.
Unset == [status |-> "", headers |-> NoHeaders, exc_info |-> "None"]

Idle ==
    [pc |-> "idle", req |-> NoRequest, xpath |-> Absent, tm |-> None,
     mw |-> None, ignore |-> FALSE, downstream |-> NoRequest,
     response |-> NoResponse, headers |-> NoHeaders, started |-> <<>>,
     body |-> Absent, error |-> "", trace |-> <<>>]

\* No function has been called directly.
NoProbe == [fn |-> "none"]

Configs ==
    [debug : BOOLEAN, filter_xpath : BOOLEAN, update_content_length : BOOLEAN,
     content_type : {Absent}, doctype : {Absent}, sheet : Stylesheets]

Init ==
    /\ conf \in Configs
    /\ transform_middleware = None
    /\ compiles = 0
    /\ served = {}
    /\ fields = [i \in Instances |-> Unset]
    /\ th = [t \in Thread |-> Idle]
    /\ probe = NoProbe

\* The options an XSLTMiddleware instance was constructed with.
MwConf(inst) ==
    [update_content_length |-> conf.update_content_length,
     content_type |-> InitContentType(conf.content_type, conf.sheet),
     doctype |-> IF inst = Filter THEN "" ELSE conf.doctype]

\* ------------------------------------------------- DiazoMiddleware.__call__

FilterMarker == ";filter_xpath="

\* query_string.rsplit(filter_xpath, 1): the index where the last marker starts
LastMarker(qs) ==
    CHOOSE i \in 1..Len(qs) :
        /\ i + Len(FilterMarker) - 1 <= Len(qs)
        /\ SubSeq(qs, i, i + Len(FilterMarker) - 1) = FilterMarker
        /\ \A j \in (i + 1)..Len(qs) :
              ~(/\ j + Len(FilterMarker) - 1 <= Len(qs)
                /\ SubSeq(qs, j, j + Len(FilterMarker) - 1) = FilterMarker)

\* urllib.unquote_plus on the expressions that occur
unquote_plus(s) ==
    CASE s = "%2F%2Fp" -> "//p"
      [] s = "//p+a" -> "//p a"
      [] OTHER -> s

\* Mutant: the escape hatch is never taken.
FilterRouteOff(filter_xpath, query_string) == FALSE

\* Does the request take the escape hatch?
FilterRoute(filter_xpath, query_string) ==
    filter_xpath /\ Contains(query_string, FilterMarker)

\* Mutant: the cached unit is never trusted.
NeedsCompileAlways(tm, debug) == TRUE

\* "if transform_middleware is None or self.debug"
NeedsCompile(tm, debug) == tm = None \/ debug

\* Mutant: the compiled unit is never stored.
CacheNever(cache, tm, debug) == cache

\* "if transform_middleware is not None and not self.debug:
\*      self.transform_middleware = transform_middleware"
CacheAfter(cache, tm, debug) == IF tm # None /\ ~debug THEN tm ELSE cache

\* Mutant: a failed compilation leaves a half-built object in the cache.
PoisonedCache(cache) == Partial

\* get_transform_middleware() raised: __call__ is left before the assignment
CacheAfterFailure(cache) == cache

\* Mutant: every call hands out the same XSLTMiddleware object.
SameUnit(n) == Unit(1)

\* get_transform_middleware() builds a new XSLTMiddleware on every call
FreshUnit(n) == Unit(n + 1)

Begin(t, rq) ==
    /\ th[t].pc = "idle"
    /\ IF FilterRoute(conf.filter_xpath, rq.query)
       THEN LET i == LastMarker(rq.query)
            IN  th' = [th EXCEPT ![t] =
                    [Idle EXCEPT
                        !.pc = "call",
                        !.req = [rq EXCEPT !.query = SubSeq(rq.query, 1, i - 1)],
                        !.xpath = unquote_plus(
                            SubSeq(rq.query, i + Len(FilterMarker), Len(rq.query))),
                        !.mw = Filter,
                        !.trace = <<"filter">>]]
       ELSE th' = [th EXCEPT ![t] =
                    [Idle EXCEPT
                        !.pc = IF NeedsCompile(transform_middleware, conf.debug)
                               THEN "compile" ELSE "store",
                        !.req = rq,
                        !.tm = transform_middleware,
                        !.trace = <<"main">>]]
    /\ UNCHANGED <<probe, conf, transform_middleware, compiles, served, fields>>

Compile(t) ==
    /\ th[t].pc = "compile"
    /\ compiles < MaxCompiles
    /\ compiles' = compiles + 1
    /\ th' = [th EXCEPT ![t].pc = "store",
                        ![t].tm = FreshUnit(compiles),
                        ![t].trace = Append(@, "compile")]
    /\ UNCHANGED <<probe, conf, transform_middleware, served, fields>>

CompileFail(t) ==
    /\ th[t].pc = "compile"
    /\ transform_middleware' = CacheAfterFailure(transform_middleware)
    /\ th' = [th EXCEPT ![t].pc = "error",
                        ![t].error = "CompilationError",
                        ![t].trace = Append(@, "compile")]
    /\ UNCHANGED <<probe, conf, compiles, served, fields>>

Store(t) ==
    /\ th[t].pc = "store"
    /\ transform_middleware' =
           CacheAfter(transform_middleware, th[t].tm, conf.debug)
    /\ served' = served \cup {th[t].tm}
    /\ th' = [th EXCEPT ![t].pc = "call", ![t].mw = th[t].tm]
    /\ UNCHANGED <<probe, conf, compiles, fields>>

\* -------------------------------------------------- XSLTMiddleware.__call__

\* _sr's callback: what response(environ, sr) leaves on the instance
Capture(response) ==
    [status |-> response.status, headers |-> response.headers,
     exc_info |-> "None"]

\* start_response(self._status, self._response_headers, self._exc_info)
StartResponseArgs(inst) == fields[inst]

Call(t, rs) ==
    /\ th[t].pc = "call"
    /\ IF ShouldIgnoreRaises(th[t].req)
       THEN /\ th' = [th EXCEPT ![t].pc = "error",
                                ![t].error = "ValueError",
                                ![t].trace = Append(@, "should_ignore")]
            /\ UNCHANGED fields
       ELSE LET ignore == should_ignore(th[t].req)
            IN  /\ th' = [th EXCEPT
                            ![t].pc = "respond",
                            ![t].ignore = ignore,
                            ![t].downstream = StripRange(th[t].req, ignore),
                            ![t].response = rs,
                            ![t].headers = rs.headers,
                            ![t].trace = @ \o <<"should_ignore", "dispatch",
                                                "capture">>]
                /\ fields' = [fields EXCEPT ![th[t].mw] = Capture(rs)]
    /\ UNCHANGED <<probe, conf, transform_middleware, compiles, served>>

\* "if ignore or not self.should_transform(response)"
Admitted(ignore, response) == ~ignore /\ should_transform(response)

\* should_transform() raises while the condition is evaluated
AdmissionRaises(ignore, response) == ~ignore /\ ShouldTransformRaises(response)

Pass(t) ==
    /\ th[t].pc = "respond"
    /\ IF AdmissionRaises(th[t].ignore, th[t].response)
       THEN th' = [th EXCEPT ![t].pc = "error",
                             ![t].error = "ValueError",
                             ![t].trace = Append(@, "should_transform")]
       ELSE /\ ~Admitted(th[t].ignore, th[t].response)
            /\ th' = [th EXCEPT
                        ![t].pc = "done",
                        ![t].started = Append(@, StartResponseArgs(th[t].mw)),
                        ![t].body = th[t].response.body,
                        ![t].trace = @ \o (IF th[t].ignore THEN <<>>
                                           ELSE <<"should_transform">>)
                                       \o <<"start_response">>]
    /\ UNCHANGED <<probe, conf, transform_middleware, compiles, served, fields>>

Transform(t, tree) ==
    /\ th[t].pc = "respond"
    /\ ~AdmissionRaises(th[t].ignore, th[t].response)
    /\ Admitted(th[t].ignore, th[t].response)
    /\ LET rewritten == RewriteHeaders(th[t].headers, MwConf(th[t].mw), tree)
       IN  /\ th' = [th EXCEPT
                        ![t].pc = "emit",
                        ![t].headers = rewritten,
                        ![t].body = Serialize(tree, MwConf(th[t].mw).doctype),
                        ![t].trace = @ \o <<"should_transform", "transform",
                                            "rewrite">>]
           /\ fields' = [fields EXCEPT ![th[t].mw].headers = rewritten]
    /\ UNCHANGED <<probe, conf, transform_middleware, compiles, served>>

\* Mutant: a failed transform falls back to the unrewritten response.
TransformFailFallback(t) ==
    /\ th[t].pc = "respond"
    /\ ~AdmissionRaises(th[t].ignore, th[t].response)
    /\ Admitted(th[t].ignore, th[t].response)
    /\ th' = [th EXCEPT
                ![t].pc = "done",
                ![t].started = Append(@, StartResponseArgs(th[t].mw)),
                ![t].body = th[t].response.body,
                ![t].trace = @ \o <<"should_transform", "transform",
                                    "start_response">>]
    /\ UNCHANGED <<probe, conf, transform_middleware, compiles, served, fields>>

\* self.transform(...) (or the parse before it) raises: __call__ is left
TransformFail(t) ==
    /\ th[t].pc = "respond"
    /\ ~AdmissionRaises(th[t].ignore, th[t].response)
    /\ Admitted(th[t].ignore, th[t].response)
    /\ th' = [th EXCEPT ![t].pc = "error",
                        ![t].error = "TransformExecutionError",
                        ![t].trace = @ \o <<"should_transform", "transform">>]
    /\ UNCHANGED <<probe, conf, transform_middleware, compiles, served, fields>>

Emit(t) ==
    /\ th[t].pc = "emit"
    /\ th' = [th EXCEPT
                ![t].pc = "done",
                ![t].started = Append(@, StartResponseArgs(th[t].mw)),
                ![t].trace = Append(@, "start_response")]
    /\ UNCHANGED <<probe, conf, transform_middleware, compiles, served, fields>>

\* The request is over (returned or raised); the thread takes the next one.
\* An XSLTMiddleware nothing refers to any more is garbage-collected.
Finish(t) ==
    /\ th[t].pc \in {"done", "error"}
    /\ th' = [th EXCEPT ![t] = Idle]
    /\ fields' = [i \in Instances |->
                    IF \/ i = Filter
                       \/ i = transform_middleware
                       \/ \E u \in Thread \ {t} : th[u].tm = i \/ th[u].mw = i
                    THEN fields[i] ELSE Unset]
    /\ UNCHANGED <<probe, conf, transform_middleware, compiles, served>>

\* ------------------------------------------------------- specifications

\* Everything a thread does to the request it has begun.
Work(t, RS) ==
    \/ Compile(t)
    \/ CompileFail(t)
    \/ Store(t)
    \/ \E rs \in RS : Call(t, rs)
    \/ Pass(t)
    \/ \E tree \in Trees : Transform(t, tree)
    \/ TransformFail(t)
    \/ Emit(t)
    \/ Finish(t)

\* Requests and upstream responses of the threads that run concurrently.
RaceRequests ==
    {[method |-> "GET", path |-> "/page", off |-> Absent, range |-> Absent,
      query |-> ""],
     [method |-> "GET", path |-> "/image.png", off |-> Absent,
      range |-> "bytes=0-1", query |-> ""],
     [method |-> "GET", path |-> "/page", off |-> Absent, range |-> Absent,
      query |-> "a=1;filter_xpath=%2F%2Fp"]}

RaceResponses ==
    {[status |-> "200 OK",
      headers |-> [NoHeaders EXCEPT !.ct = "text/html", !.cl = "9"],
      body |-> "<p>Hi</p>"],
     [status |-> "301 Moved Permanently",
      headers |-> [NoHeaders EXCEPT !.ct = "text/html"],
      body |-> ""]}

\* Any interleaving of the threads' requests on the one middleware instance.
Next ==
    \E t \in Thread :
        \/ \E rq \in RaceRequests : Begin(t, rq)
        \/ Work(t, RaceResponses)

Spec == Init /\ [][Next]_vars

\* A request begins only when no other request is in flight.
BeginSeq(t, rq) ==
    /\ \A u \in Thread : th[u].pc = "idle"
    /\ Begin(t, rq)

\* One request after the other.
NextSeq ==
    \E t \in Thread :
        \/ \E rq \in Requests : BeginSeq(t, rq)
        \/ Work(t, Responses)

SpecSeq == Init /\ [][NextSeq]_vars

\* ------------------------------------------- direct calls: admission

PolicyMethods == {"GET", "HEAD", "POST"}

PolicyPaths == {"/page", "/image.png", "/IMAGE.PNG", "/style.css"}

\* Values of the X-Diazo-Off header, on a request or on a response.
PolicyOffValues ==
    {Absent, "no", "0", "1", "yes", " Yes ", "TRUE", "On", "Y", "T", "junk", ""}

PolicyRequests ==
    [method : PolicyMethods, path : PolicyPaths, off : PolicyOffValues,
     range : {Absent}, query : {""}]

PolicyStatuses ==
    {"200 OK", "204 No Content", "301 Moved Permanently", "304 Not Modified",
     "401 Unauthorized", "404 Not Found"}

PolicyContentTypes ==
    {Absent, "", "text/html", "TEXT/HTML; charset=utf-8",
     "Application/XHTML+XML", "image/png"}

PolicyEncodings == {Absent, "gzip", "deflate", "compress", "zip", "identity"}

PolicyResponses ==
    [status : PolicyStatuses,
     headers : [ct : PolicyContentTypes, cl : {Absent}, cr : {Absent},
                off : {Absent, "1", "junk"}, ce : PolicyEncodings],
     body : {"<p>Hi</p>"}]

\* What a call of should_ignore(request) comes to.
IgnoreOutcome(request) ==
    IF ShouldIgnoreRaises(request) THEN "ValueError"
    ELSE IF should_ignore(request) THEN "True" ELSE "False"

\* What a call of should_transform(response) comes to.
TransformOutcome(response) ==
    IF ShouldTransformRaises(response) THEN "ValueError"
    ELSE IF should_transform(response) THEN "True" ELSE "False"

Frame == UNCHANGED <<conf, transform_middleware, compiles, served, fields, th>>

ProbeIgnore(rq) ==
    /\ probe = NoProbe
    /\ probe' = [fn |-> "should_ignore", request |-> rq,
                 result |-> IgnoreOutcome(rq)]
    /\ Frame

ProbeTransform(rs) ==
    /\ probe = NoProbe
    /\ probe' = [fn |-> "should_transform", response |-> rs,
                 result |-> TransformOutcome(rs)]
    /\ Frame

\* ----------------------------------- direct calls: XSLTMiddleware.__init__

\* The files open(filename) finds, and the stylesheet each one holds.
FileSheets ==
    [f \in {"theme.xsl"} |-> [media_type |-> Absent, method |-> "xml"]]

InitFilenames == {Absent, "theme.xsl", "missing.xsl"}

\* tree=None, or a pre-parsed stylesheet.
InitTrees == {None} \cup {<<sheet>> : sheet \in Stylesheets}

InitContentTypes == {Absent, "text/plain"}

\* read_network as it arrives from a paste configuration.
InitFlags == {"0", "1", "junk"}

\* The constructor: the exception it raises ("" for none), and the
\* stylesheet and content type the instance ends up with.
XSLTInit(filename, tree, content_type, read_network) ==
    LET failed(e) == [error |-> e, tree |-> None, content_type |-> Absent]
        used == IF filename # Absent THEN <<FileSheets[filename]>> ELSE tree
    IN  IF filename # Absent /\ filename \notin DOMAIN FileSheets
        THEN failed("IOError")
        ELSE IF content_type = Absent /\ used = None
        THEN failed("AttributeError")
        ELSE IF AsboolRaises(read_network) THEN failed("ValueError")
        ELSE IF used = None THEN failed("TypeError")
        ELSE [error |-> "", tree |-> used,
              content_type |-> InitContentType(content_type, used[1])]

ProbeInit(filename, tree, content_type, read_network) ==
    /\ probe = NoProbe
    /\ probe' = [fn |-> "__init__", filename |-> filename, tree |-> tree,
                 content_type |-> content_type,
                 result |-> XSLTInit(filename, tree, content_type,
                                     read_network)]
    /\ Frame

\* --------------------------------------------------- direct calls: resolvers

Sentinel == "file:///__diazo__"

\* The paths os.path.exists() finds.
ExistingPaths == {"/srv/theme/index.html"}

References ==
    {Sentinel, "http://example.org/theme.html", "/srv/theme/index.html",
     "/theme.html", "diazo:rules", "python://pkg/theme.html"}

\* The status of the wrapped application's answer to a subrequest.
SubStatuses == {"200 OK", "404 Not Found"}

\* A resolver's return value None.
NotResolved == "None"

FilesystemResolve(system_url) ==
    IF ~Contains(system_url, "://") /\ system_url \in ExistingPaths
    THEN [result |-> "file:" \o system_url, called |-> FALSE]
    ELSE [result |-> NotResolved, called |-> FALSE]

NetworkResolve(system_url) ==
    IF Contains(system_url, "://") /\ system_url # "file:///__diazo__"
    THEN [result |-> "url:" \o system_url, called |-> FALSE]
    ELSE [result |-> NotResolved, called |-> FALSE]

PythonResolve(system_url) ==
    IF ~StartsWith(StripLower(system_url), "python://")
    THEN [result |-> NotResolved, called |-> FALSE]
    ELSE [result |-> "resource:" \o SubSeq(system_url, 10, Len(system_url)),
          called |-> FALSE]

\* Mutant: the subrequest resolver takes references with a scheme too.
WSGIResolveAnyScheme(system_url, status) ==
    IF StartsWith(system_url, "diazo:")
    THEN [result |-> NotResolved, called |-> FALSE]
    ELSE IF StatusCode(status) # "200"
    THEN [result |-> NotResolved, called |-> TRUE]
    ELSE [result |-> "body:" \o system_url, called |-> TRUE]

\* WSGIResolver.resolve; "called" tells whether the subrequest was made.
WSGIResolve(system_url, status) ==
    IF Contains(system_url, "://")
    THEN [result |-> NotResolved, called |-> FALSE]
    ELSE IF StartsWith(system_url, "diazo:")
    THEN [result |-> NotResolved, called |-> FALSE]
    ELSE IF StatusCode(status) # "200"
    THEN [result |-> NotResolved, called |-> TRUE]
    ELSE [result |-> "body:" \o system_url, called |-> TRUE]

ResolverNames == {"filesystem", "wsgi", "python", "network"}

Resolve(name, system_url, status) ==
    CASE name = "filesystem" -> FilesystemResolve(system_url)
      [] name = "network" -> NetworkResolve(system_url)
      [] name = "python" -> PythonResolve(system_url)
      [] name = "wsgi" -> WSGIResolve(system_url, status)

ProbeResolver(name, system_url, status) ==
    /\ probe = NoProbe
    /\ probe' = [fn |-> "resolve", resolver |-> name, url |-> system_url,
                 status |-> status,
                 result |-> Resolve(name, system_url, status)]
    /\ Frame

\* compile_theme: the resolvers added to the rules and theme parsers.
Registered(read_network, read_file) ==
    {"filesystem", "wsgi", "python"}
        \cup (IF read_network THEN {"network"} ELSE {})

\* The orders in which a parser may consult its registered resolvers.
Orders(registered) ==
    {o \in [1..Cardinality(registered) -> registered] :
        \A i, j \in DOMAIN o : i # j => o[i] # o[j]}

\* The first resolver in the order that answers, "" if none does.
ResolvedBy(order, system_url, status) ==
    LET hits == {i \in DOMAIN order :
                    Resolve(order[i], system_url, status).result
                        # NotResolved}
    IN  IF hits = {} THEN ""
        ELSE order[CHOOSE i \in hits : \A j \in hits : i <= j]

ProbeCompile(read_network, read_file, order, system_url, status) ==
    /\ probe = NoProbe
    /\ probe' = [fn |-> "compile_theme", read_network |-> read_network,
                 read_file |-> read_file, url |-> system_url,
                 registered |-> Registered(read_network, read_file),
                 result |-> ResolvedBy(order, system_url, status)]
    /\ Frame

\* ------------------------------------------- direct calls: parameters

\* diazo.utils.quote_param: the value as an XPath string literal.
quote_param(value) == "'" \o value \o "'"

\* environ_param_map.items(): (environ key, parameter name) pairs.
ParamMaps ==
    {<<>>,
     <<<<"app.user", "user">>>>,
     <<<<"app.user", "user">>, <<"diazo.path", "path">>>>,
     <<<<"diazo.path", "path">>, <<"app.user", "user">>>>}

EnvironValues == [k \in {"app.user", "diazo.path"} |->
                     IF k = "app.user" THEN "bob" ELSE "/a"]

\* The request environment, restricted to the keys the maps name.
Environs ==
    {[k \in keys |-> EnvironValues[k]] : keys \in SUBSET DOMAIN EnvironValues}

\* self.params.items(): (parameter name, value) pairs.
StaticParams ==
    {<<>>,
     <<<<"user", "admin">>>>,
     <<<<"theme", "blue">>>>,
     <<<<"user", "admin">>, <<"theme", "blue">>>>}

UnquotedSets == {{}, {"user"}, {"path", "theme"}}

\* params[name] = value
Put(params, name, value) ==
    [n \in DOMAIN params \cup {name} |->
        IF n = name THEN value ELSE params[n]]

\* The value as the transform receives it under this name.
Quoted(name, value, unquoted_params) ==
    IF name \in unquoted_params THEN value ELSE quote_param(value)

\* "for key, value in self.environ_param_map.items()", from item i on.
RECURSIVE EnvironLoop(_, _, _, _, _)
EnvironLoop(params, items, i, environ, unquoted_params) ==
    IF i > Len(items) THEN params
    ELSE LET key == items[i][1]
             value == items[i][2]
             next == IF key \in DOMAIN environ
                     THEN Put(params, value,
                              Quoted(value, environ[key], unquoted_params))
                     ELSE params
         IN  EnvironLoop(next, items, i + 1, environ, unquoted_params)

\* "for key, value in self.params.items()", from item i on.
RECURSIVE StaticLoop(_, _, _, _)
StaticLoop(params, items, i, unquoted_params) ==
    IF i > Len(items) THEN params
    ELSE StaticLoop(Put(params, items[i][1],
                        Quoted(items[i][1], items[i][2], unquoted_params)),
                    items, i + 1, unquoted_params)

\* Mutant: the static parameters are applied first.
SetUpParamsStaticFirst(environ, environ_param_map, static, unquoted_params) ==
    EnvironLoop(StaticLoop(<<>>, static, 1, unquoted_params),
                environ_param_map, 1, environ, unquoted_params)

\* "Set up parameters": params = {}, the environ loop, the static loop.
SetUpParams(environ, environ_param_map, static, unquoted_params) ==
    StaticLoop(EnvironLoop(<<>>, environ_param_map, 1, environ,
                           unquoted_params),
               static, 1, unquoted_params)

ProbeParams(environ, environ_param_map, static, unquoted_params) ==
    /\ probe = NoProbe
    /\ probe' = [fn |-> "params", environ |-> environ,
                 environ_param_map |-> environ_param_map,
                 static |-> static, unquoted_params |-> unquoted_params,
                 result |-> SetUpParams(environ, environ_param_map, static,
                                        unquoted_params)]
    /\ Frame

\* ------------------------------------ direct calls: request variables

\* request.path, request.host and request.scheme of the incoming request.
RequestPaths == {"/page", "/a/b"}

RequestHosts == {"example.org", "localhost:8080"}

RequestSchemes == {"http", "https"}

\* DiazoMiddleware.__init__: the entries added to environ_param_map.
DiazoParamMap ==
    <<<<"diazo.path", "path">>, <<"diazo.host", "host">>,
      <<"diazo.scheme", "scheme">>>>

\* DiazoMiddleware.__call__: the request variables written to environ
\* before the transform middleware is called.
SetUpVariables(request) ==
    Put(Put(Put(<<>>, "diazo.path", request.path),
            "diazo.host", request.host),
        "diazo.scheme", request.host)

ProbeVariables(request, unquoted_params) ==
    /\ probe = NoProbe
    /\ probe' = [fn |-> "variables", request |-> request,
                 unquoted_params |-> unquoted_params,
                 environ |-> SetUpVariables(request),
                 result |-> SetUpParams(SetUpVariables(request),
                                        DiazoParamMap, <<>>,
                                        unquoted_params)]
    /\ Frame

\* The call returns.
ProbeReturn ==
    /\ probe # NoProbe
    /\ probe' = NoProbe
    /\ Frame

\* Direct calls of the policy functions, the constructor, the resolvers,
\* the parameter assembly and the request variables, one call at a time.
NextPure ==
    \/ \E rq \in PolicyRequests : ProbeIgnore(rq)
    \/ \E rs \in PolicyResponses : ProbeTransform(rs)
    \/ \E filename \in InitFilenames, tree \in InitTrees,
          content_type \in InitContentTypes, read_network \in InitFlags :
            ProbeInit(filename, tree, content_type, read_network)
    \/ \E name \in ResolverNames, url \in References, status \in SubStatuses :
            ProbeResolver(name, url, status)
    \/ \E read_network \in BOOLEAN, read_file \in BOOLEAN,
          url \in References, status \in SubStatuses :
            \E order \in Orders(Registered(read_network, read_file)) :
                ProbeCompile(read_network, read_file, order, url, status)
    \/ \E environ \in Environs, environ_param_map \in ParamMaps,
          static \in StaticParams, unquoted_params \in UnquotedSets :
            ProbeParams(environ, environ_param_map, static, unquoted_params)
    \/ \E request \in [path : RequestPaths, host : RequestHosts,
                        scheme : RequestSchemes],
          unquoted_params \in UnquotedSets :
            ProbeVariables(request, unquoted_params)
    \/ ProbeReturn

SpecPure == Init /\ [][NextPure]_vars

\* ---------------------------------------------------------------- claims

MainPath(t) == th[t].trace # <<>> /\ th[t].trace[1] = "main"

FilterPath(t) == th[t].trace # <<>> /\ th[t].trace[1] = "filter"

Has(trace, e) == \E i \in 1..Len(trace) : trace[i] = e

Count(trace, e) == Cardinality({i \in 1..Len(trace) : trace[i] = e})

\* The units that completed compilations have produced so far.
Issued == {Unit(n) : n \in 1..compiles}

\* No request is in flight.
Quiet == \A t \in Thread : th[t].pc \in {"idle", "done", "error"}

\* C1: without debug, in any sequence of requests the theme is compiled at
\* most once; after the successful compilation no request invokes the
\* compiler again, and every main-path request is delegated to that one
\* cached unit.
C1_CachedUnitReused ==
    ~conf.debug =>
        /\ compiles <= 1
        /\ transform_middleware \in {None, Unit(1)}
        /\ compiles = 1 =>
              \A t \in Thread :
                  th[t].pc # "compile" /\ th[t].error # "CompilationError"
        /\ (compiles = 1 /\ Quiet) => transform_middleware = Unit(1)
        /\ \A t \in Thread :
              (MainPath(t) /\ th[t].mw # None) =>
                  th[t].mw = Unit(1) /\ th[t].mw = transform_middleware

\* A later request was served by the cached unit without compiling.
C1_Witness ==
    /\ ~conf.debug
    /\ compiles = 1
    /\ \E t \in Thread :
          /\ MainPath(t)
          /\ th[t].pc = "done"
          /\ ~Has(th[t].trace, "compile")
          /\ th[t].mw = Unit(1)

\* C2: with debug, nothing is ever cached; every main-path request that gets
\* past the compiler has invoked it and is delegated to the unit it compiled
\* itself, which no other request, earlier or concurrent, was given.
C2_DebugRecompiles ==
    conf.debug =>
        /\ transform_middleware = None
        /\ \A t \in Thread :
              (MainPath(t) /\ th[t].pc \notin {"compile", "error"}) =>
                  /\ Has(th[t].trace, "compile")
                  /\ th[t].tm \in Issued
        /\ \A t \in Thread :
              (MainPath(t) /\ th[t].mw # None) => th[t].mw = th[t].tm
        /\ \A t \in Thread :
              th[t].pc = "store" => th[t].tm \notin served
        /\ \A t, u \in Thread :
              (t # u /\ th[t].tm # None) => th[t].tm # th[u].tm

\* Two requests in a row were served, the second by a unit of its own.
C2_Witness ==
    /\ conf.debug
    /\ Unit(1) \in served
    /\ \E t \in Thread :
          /\ th[t].pc = "done"
          /\ Has(th[t].trace, "compile")
          /\ th[t].mw = Unit(2)

\* C3: a step in which a request's compilation fails ends that request with
\* the compilation error, without any start_response or body, and leaves the
\* cache as it was; the cache never holds anything but nothing or a unit of
\* a completed compilation; and a main-path request that begins while the
\* cache is empty goes to the compiler.
C3_CompileFailureKeepsCache ==
    [][\A t \in Thread :
          /\ (th[t].pc = "compile" /\ th'[t].pc = "error") =>
                /\ th'[t].error = "CompilationError"
                /\ th'[t].started = <<>>
                /\ th'[t].body = Absent
                /\ transform_middleware' = transform_middleware
          /\ (/\ th[t].pc = "idle"
              /\ th'[t].pc # "idle"
              /\ th'[t].trace[1] = "main"
              /\ transform_middleware = None) => th'[t].pc = "compile"
          /\ transform_middleware' \in
                {None} \cup {Unit(n) : n \in 1..compiles'}]_vars

\* A first compilation has failed and the middleware is still uncompiled.
C3_Witness ==
    /\ transform_middleware = None
    /\ compiles = 0
    /\ \E t \in Thread :
          th[t].pc = "error" /\ th[t].error = "CompilationError"

\* C4: every start_response call a request makes carries the status, the
\* headers and the exc_info of that request's own upstream response.
C4_OwnResponseEmitted ==
    \A t \in Thread :
        \A i \in 1..Len(th[t].started) :
            th[t].started[i] =
                [status |-> th[t].response.status,
                 headers |-> th[t].headers,
                 exc_info |-> "None"]

\* C5: without debug, under any interleaving, the cache holds nothing or a
\* unit of a completed compilation; every main-path request is delegated to
\* such a unit; only requests that read an empty cache compile; the cache is
\* empty only while every compiled unit is still waiting to be stored, so
\* once the requests are over and a unit was compiled the cache holds one.
C5_BenignRace ==
    ~conf.debug =>
        /\ transform_middleware \in {None} \cup Issued
        /\ \A t \in Thread :
              (MainPath(t) /\ th[t].mw # None) => th[t].mw \in Issued
        /\ \A t \in Thread : th[t].pc = "compile" => th[t].tm = None
        /\ transform_middleware = None =>
              \A n \in 1..compiles :
                  \E t \in Thread : th[t].pc = "store" /\ th[t].tm = Unit(n)
        /\ (Quiet /\ compiles > 0) => transform_middleware \in Issued

\* Two racing first requests each compiled and each was served by its own
\* unit; the cache holds one of the two.
C5_Witness ==
    /\ ~conf.debug
    /\ compiles = 2
    /\ \A t \in Thread : th[t].pc = "done" /\ MainPath(t)
    /\ \E t, u \in Thread : th[t].mw # th[u].mw
    /\ transform_middleware \in Issued

\* C6: a request that completes has called start_response exactly once, as
\* its last step after the capture (and after the decision and the
\* rewriting), with the headers that go with the returned body.
C6_StartResponseOnceWithFinalHeaders ==
    \A t \in Thread :
        th[t].pc = "done" =>
            /\ Len(th[t].started) = 1
            /\ Count(th[t].trace, "start_response") = 1
            /\ th[t].trace[Len(th[t].trace)] = "start_response"
            /\ Has(th[t].trace, "capture")
            /\ th[t].started[1].headers = th[t].headers

\* C7: with filter_xpath enabled a request whose query string holds the
\* marker never runs on the main path; a request on the filter path is
\* handled by the filter middleware alone, never reaches the compiler, and
\* none of its steps changes the cache or compiles anything.
C7_FilterRouteBypassesTheme ==
    [][\A t \in Thread :
          /\ (conf.filter_xpath /\ th'[t].trace # <<>>
                /\ th'[t].trace[1] = "main") =>
                    ~Contains(th'[t].req.query, FilterMarker)
          /\ (th'[t].trace # <<>> /\ th'[t].trace[1] = "filter") =>
                /\ conf.filter_xpath
                /\ th'[t].mw = Filter
                /\ th'[t].tm = None
                /\ th'[t].pc \notin {"compile", "store"}
                /\ ~Has(th'[t].trace, "compile")
          /\ ((FilterPath(t) \/ (th'[t].trace # <<>>
                                  /\ th'[t].trace[1] = "filter"))
                /\ th'[t] # th[t]) =>
                    /\ transform_middleware' = transform_middleware
                    /\ compiles' = compiles
                    /\ served' = served]_vars

\* A marker request was transformed by the filter middleware.
C7_Witness ==
    /\ conf.filter_xpath
    /\ \E t \in Thread :
          /\ FilterPath(t)
          /\ th[t].pc = "done"
          /\ Has(th[t].trace, "transform")
          /\ th[t].xpath = "//p"

\* C8: a request that should_ignore accepts ends with the upstream status,
\* headers and body emitted unchanged, and without the transform having run.
C8_IgnoredRequestPassesThrough ==
    \A t \in Thread :
        (/\ th[t].pc \in {"done", "error"}
         /\ ~ShouldIgnoreRaises(th[t].req)
         /\ should_ignore(th[t].req)) =>
            /\ th[t].pc = "done"
            /\ ~Has(th[t].trace, "transform")
            /\ th[t].started = <<Capture(th[t].response)>>
            /\ th[t].body = th[t].response.body

\* C9: the request handed downstream has a Range header exactly when the
\* incoming one had it and the request is ignored: an ignored request goes
\* downstream unchanged, any other one without its Range header.
C9_RangeStrippedUnlessIgnored ==
    \A t \in Thread :
        Has(th[t].trace, "dispatch") =>
            LET ig == should_ignore(th[t].req)
            IN  /\ (th[t].downstream.range # Absent) <=>
                      (th[t].req.range # Absent /\ ig)
                /\ ig => th[t].downstream = th[t].req
                /\ ~ig => th[t].downstream =
                             [th[t].req EXCEPT !.range = Absent]

\* A request that is not ignored went downstream without its Range header.
C9_Witness ==
    \E t \in Thread :
        /\ Has(th[t].trace, "dispatch")
        /\ th[t].req.range # Absent
        /\ ~should_ignore(th[t].req)
        /\ th[t].downstream.range = Absent

\* C10: a request whose transform ran without producing a result has failed
\* with the transform error: start_response was not called, no body was
\* returned, and neither the dispatch nor the transform ran a second time.
C10_TransformFailureIsFatal ==
    \A t \in Thread :
        (Has(th[t].trace, "transform") /\ ~Has(th[t].trace, "rewrite")) =>
            /\ th[t].pc = "error"
            /\ th[t].error = "TransformExecutionError"
            /\ th[t].started = <<>>
            /\ th[t].body = Absent
            /\ Count(th[t].trace, "transform") = 1
            /\ Count(th[t].trace, "dispatch") = 1

\* The transform failed on an admitted response.
C10_Witness ==
    \E t \in Thread :
        /\ th[t].error = "TransformExecutionError"
        /\ Admitted(th[t].ignore, th[t].response)

\* C11: whenever a response has been rewritten, the headers of the request
\* (and the ones it emits) hold no Content-Range, whatever the upstream
\* response declared and whatever update_content_length is.
C11_ContentRangeRemoved ==
    \A t \in Thread :
        Has(th[t].trace, "rewrite") =>
            /\ th[t].headers.cr = Absent
            /\ \A i \in 1..Len(th[t].started) :
                  th[t].started[i].headers.cr = Absent

\* C12: after a rewrite, with update_content_length on and an upstream
\* Content-Length, the Content-Length of the request (and the one emitted
\* with the body) is the decimal length of the serialized body returned;
\* otherwise the Content-Length is the upstream one, absent if it was absent.
C12_ContentLengthMatchesBody ==
    \A t \in Thread :
        Has(th[t].trace, "rewrite") =>
            LET expected ==
                    IF /\ conf.update_content_length
                       /\ th[t].response.headers.cl # Absent
                    THEN Str(Len(th[t].body))
                    ELSE th[t].response.headers.cl
            IN  /\ th[t].headers.cl = expected
                /\ \A i \in 1..Len(th[t].started) :
                      th[t].started[i].headers.cl = expected

\* A rewritten response was emitted with a recomputed Content-Length that
\* differs from the upstream one.
C12_Witness ==
    \E t \in Thread :
        /\ th[t].pc = "done"
        /\ Has(th[t].trace, "rewrite")
        /\ conf.update_content_length
        /\ th[t].response.headers.cl = "9"
        /\ th[t].started[1].headers.cl = "37"
        /\ Len(th[t].body) = 37

\* The values asbool() takes for true, after strip() and lower().
Truthy == {"true", "yes", "on", "y", "t", "1"}

\* C13: every call of should_ignore and of should_transform returns a
\* boolean, whatever the bypass header holds, and should_transform returns
\* false for a response without a Content-Type.
C13_AdmissionNeverRaises ==
    /\ probe.fn \in {"should_ignore", "should_transform"} =>
          probe.result \in {"True", "False"}
    /\ (probe.fn = "should_transform"
          /\ probe.response.headers.ct = Absent) => probe.result = "False"

\* C14: should_ignore returns true for every HEAD request, and for every
\* request whose bypass header, stripped and lower-cased, is one of
\* yes/true/on/1/t/y.
C14_IgnoreHeadAndBypass ==
    probe.fn = "should_ignore" =>
        /\ probe.request.method = "HEAD" => probe.result = "True"
        /\ (probe.request.off # Absent
              /\ StripLower(probe.request.off) \in Truthy) =>
                  probe.result = "True"

\* The content type is of the HTML family (prefix, case-insensitive).
HtmlFamily(ct) ==
    /\ ct # Absent
    /\ \/ StartsWith(StripLower(ct), "text/html")
       \/ StartsWith(StripLower(ct), "application/xhtml+xml")

\* C15: should_transform returns false for every 3xx, 204 or 401 response
\* whatever its headers, and true for a 200 response of the HTML family
\* with no truthy bypass header and no Content-Encoding.
C15_TransformByStatus ==
    probe.fn = "should_transform" =>
        LET r == probe.response
            code == SubSeq(r.status, 1, 3)
        IN  /\ (SubSeq(code, 1, 1) = "3" \/ code \in {"204", "401"}) =>
                  probe.result = "False"
            /\ (/\ code = "200"
                /\ HtmlFamily(r.headers.ct)
                /\ ~(r.headers.off # Absent
                       /\ StripLower(r.headers.off) \in Truthy)
                /\ r.headers.ce = Absent) => probe.result = "True"

\* C16: constructing XSLTMiddleware with both a filename and a tree raises
\* an error, so no instance is produced.
C16_TreeAndFilenameRejected ==
    (probe.fn = "__init__" /\ probe.filename # Absent /\ probe.tree # None)
        => probe.result.error # ""

\* C17: the NetworkResolver is registered exactly when read_network is
\* true and the FilesystemResolver exactly when read_file is true, and
\* with read_file false the FilesystemResolver resolves no reference.
C17_FlagsGateResolvers ==
    probe.fn = "compile_theme" =>
        /\ "network" \in probe.registered <=> probe.read_network
        /\ "filesystem" \in probe.registered <=> probe.read_file
        /\ ~probe.read_file => probe.result # "filesystem"

\* C18: should_transform returns false for every response whose
\* Content-Encoding is gzip, deflate, compress or zip.
C18_CompressedNotTransformed ==
    (probe.fn = "should_transform"
       /\ probe.response.headers.ce \in {"gzip", "deflate", "compress", "zip"})
        => probe.result = "False"

\* C19: neither the NetworkResolver nor the WSGIResolver resolves the
\* sentinel; the WSGIResolver makes no subrequest for a reference with a
\* scheme or a "diazo:" prefix, and resolves only on a 200 subrequest.
C19_SentinelNeverResolved ==
    probe.fn = "resolve" =>
        /\ (probe.url = Sentinel /\ probe.resolver \in {"network", "wsgi"})
              => probe.result = [result |-> NotResolved, called |-> FALSE]
        /\ (/\ probe.resolver = "wsgi"
            /\ \/ Contains(probe.url, "://")
               \/ StartsWith(probe.url, "diazo:"))
              => probe.result = [result |-> NotResolved, called |-> FALSE]
        /\ (probe.resolver = "wsgi" /\ probe.result.result # NotResolved)
              => (probe.result.called /\ StatusCode(probe.status) = "200")

C19_Witness ==
    /\ probe.fn = "resolve"
    /\ probe.resolver = "wsgi"
    /\ probe.url = Sentinel
    /\ probe.status = "200 OK"
    /\ probe.result = [result |-> NotResolved, called |-> FALSE]

\* The index-th components of the items whose key is among those present.
Names(items, index, present) ==
    {items[i][index] : i \in {j \in DOMAIN items : items[j][1] \in present}}

\* C20: the parameters are the environment-derived values, for the mapped
\* keys present in the environment, overridden by the static parameters of
\* the same name; each value is quoted unless its name is in
\* unquoted_params.
C20_StaticOverEnviron ==
    probe.fn = "params" =>
        LET map == probe.environ_param_map
            static == probe.static
            environ == probe.environ
            unq == probe.unquoted_params
            static_names == {static[i][1] : i \in DOMAIN static}
            Literal(name, value) ==
                IF name \in unq THEN value ELSE "'" \o value \o "'"
        IN  /\ DOMAIN probe.result =
                  static_names \cup Names(map, 2, DOMAIN environ)
            /\ \A i \in DOMAIN static :
                  probe.result[static[i][1]] =
                      Literal(static[i][1], static[i][2])
            /\ \A i \in DOMAIN map :
                  (map[i][1] \in DOMAIN environ
                     /\ map[i][2] \notin static_names) =>
                      probe.result[map[i][2]] =
                          Literal(map[i][2], environ[map[i][1]])

C20_Witness ==
    /\ probe.fn = "params"
    /\ probe.unquoted_params = {"path", "theme"}
    /\ DOMAIN probe.environ = {"app.user", "diazo.path"}
    /\ DOMAIN probe.result = {"user", "path", "theme"}
    /\ probe.result["user"] = "'admin'"
    /\ probe.result["path"] = "/a"
    /\ probe.result["theme"] = "blue"

\* C21: on a main-path request diazo.path, diazo.host and diazo.scheme in
\* the environment equal the request's path, host and scheme, and the
\* path, host and scheme transform parameters carry those values.
C21_RequestVariablesInjected ==
    probe.fn = "variables" =>
        LET request == probe.request
            Literal(name, value) ==
                IF name \in probe.unquoted_params THEN value
                ELSE "'" \o value \o "'"
        IN  /\ probe.environ["diazo.path"] = request.path
            /\ probe.environ["diazo.host"] = request.host
            /\ probe.environ["diazo.scheme"] = request.scheme
            /\ probe.result["path"] = Literal("path", request.path)
            /\ probe.result["host"] = Literal("host", request.host)
            /\ probe.result["scheme"] = Literal("scheme", request.scheme)

====
